---- MODULE Spec2Model ----
(***************************************************************************)
(* A model of the replicated ledger and peer synchronisation core of the   *)
(* blockchain news platform: the Block / Blockchain classes                *)
(* (backend/blockchain.js, lines 388-594 of src/.../backend/p2p.js), the   *)
(* P2PNetwork message handlers (backend/p2p.js) and the two REST handlers  *)
(* of backend/server.js that mutate the chain.                             *)
(*                                                                         *)
(* Positions: the code indexes chains from 0, TLA+ sequences from 1; the   *)
(* block at position k of a sequence is the code's chain[k-1].             *)
(***************************************************************************)
EXTENDS Integers, Sequences, FiniteSets, TLC

(***************************************************************************)
(* Bounds of the model.                                                    *)
(***************************************************************************)
\* Largest reading of a node's clock (Date.now()).
MaxTime == 1
\* Longest chain a node may hold.
MaxChain == 3
\* Most messages in flight towards one socket.
MaxQueue == 2
\* Most votes (up plus down) one article may collect.
MaxVotes == 1
\* Most articles submitted through the REST API.
MaxArticles == 2
\* Size of the digit alphabet of the modelled hash prefix (16 in the code).
HexBase == 2

\* this.difficulty = 2
Difficulty == 2

(***************************************************************************)
(* Hashes.  SHA-256 is modelled as collision free: a digest is its leading *)
(* digits (the part mineBlock looks at), which depend on every hashed      *)
(* field, and a body that identifies the hashed fields.                    *)
(***************************************************************************)
\* Number of leading digits of a digest the model keeps.
LeadLen == Difficulty

\* The previousHash '0' of a genesis block.
ZeroHash == [lead |-> << >>, body |-> << >>]

\* A value that is the digest of nothing (what a tampering peer writes).
BadHash == [lead |-> <<1, 1>>, body |-> << >>]

RECURSIVE Pow(_, _)
Pow(b, e) == IF e = 0 THEN 1 ELSE b * Pow(b, e - 1)

HashCode(h) == IF h.lead = << >> THEN 0 ELSE 1 + h.lead[1] * HexBase + h.lead[2]

DataCode(d) == d.id + d.votes + 2 * d.downvotes + d.timestamp

LeadDigits(v) == [k \in 1..LeadLen |-> (v \div Pow(HexBase, LeadLen - k)) % HexBase]

CalculateHash(index, previousHash, timestamp, data, nonce) ==
    [lead |-> LeadDigits((index + HashCode(previousHash) + 3 * timestamp
                            + DataCode(data) + nonce) % Pow(HexBase, LeadLen)),
     body |-> <<index, previousHash, timestamp, data, nonce>>]

\* this.hash.substring(0, difficulty) === Array(difficulty + 1).join('0')
HasLeadingZeros(h, difficulty) ==
    /\ Len(h.lead) >= difficulty
    /\ \A k \in 1..difficulty : h.lead[k] = 0

(***************************************************************************)
(* Blocks.  `typed` tells a Block instance (it has calculateHash) from a   *)
(* plain object parsed from JSON.                                          *)
(***************************************************************************)
\* The data of the genesis block, the string 'Genesis Block' (it has no id).
GenesisData == [type |-> "Genesis Block", id |-> 0, votes |-> 0, downvotes |-> 0,
                timestamp |-> 0]

Block(index, timestamp, data, previousHash) ==
    [index |-> index, timestamp |-> timestamp, data |-> data,
     previousHash |-> previousHash, nonce |-> 0,
     hash |-> CalculateHash(index, previousHash, timestamp, data, 0),
     typed |-> TRUE]

BlockHash(b) == CalculateHash(b.index, b.previousHash, b.timestamp, b.data, b.nonce)

\* A faulty mineBlock: the nonce is incremented before the first test.
MineNonceIncrementFirst(b, difficulty, nonce) ==
    CHOOSE k \in (nonce + 1)..(nonce + Pow(HexBase, LeadLen)) :
        /\ HasLeadingZeros(CalculateHash(b.index, b.previousHash, b.timestamp, b.data, k),
                           difficulty)
        /\ \A j \in (nonce + 1)..(k - 1) :
            ~HasLeadingZeros(CalculateHash(b.index, b.previousHash, b.timestamp, b.data, j),
                             difficulty)

RECURSIVE MineNonce(_, _, _)
MineNonce(b, difficulty, nonce) ==
    IF HasLeadingZeros(CalculateHash(b.index, b.previousHash, b.timestamp, b.data, nonce),
                       difficulty)
    THEN nonce
    ELSE MineNonce(b, difficulty, nonce + 1)

MineBlock(b, difficulty) ==
    LET n == MineNonce(b, difficulty, b.nonce)
    IN  [b EXCEPT !.nonce = n,
                  !.hash = CalculateHash(b.index, b.previousHash, b.timestamp, b.data, n)]

\* JSON.stringify of a block: its six own properties, not its prototype.
ToJSON(b) ==
    [index |-> b.index, timestamp |-> b.timestamp, data |-> b.data,
     previousHash |-> b.previousHash, nonce |-> b.nonce, hash |-> b.hash]

ChainJSON(ch) == [k \in 1..Len(ch) |-> ToJSON(ch[k])]

\* A block of a parsed message, used as it is (no prototype).
RawBlock(jb) ==
    [index |-> jb.index, timestamp |-> jb.timestamp, data |-> jb.data,
     previousHash |-> jb.previousHash, nonce |-> jb.nonce, hash |-> jb.hash,
     typed |-> FALSE]

\* Object.create(Block.prototype) + Object.assign, Block being
\* require('./blockchain').Block (undefined) || chain[0].constructor.
ReconstructBlock(jb, ctorIsBlock) == [RawBlock(jb) EXCEPT !.typed = ctorIsBlock]

(***************************************************************************)
(* Blockchain.                                                             *)
(***************************************************************************)
CreateGenesisBlock(now) == Block(0, now, GenesisData, ZeroHash)

GetLatestBlock(ch) == ch[Len(ch)]

\* A faulty addBlock: the new block links to the first block of the chain,
\* not to the latest one.
AddBlockLinkedToFirst(ch, data, now) ==
    Append(ch, MineBlock(Block(Len(ch), now, data, ch[1].hash), Difficulty))

AddBlock(ch, data, now) ==
    Append(ch, MineBlock(Block(Len(ch), now, data, GetLatestBlock(ch).hash), Difficulty))

AddArticle(ch, article, now) ==
    AddBlock(ch, [type |-> "ARTICLE", id |-> article.id, votes |-> article.votes,
                  downvotes |-> article.downvotes, timestamp |-> now], now)

SaveBlockchain(ch) == ChainJSON(ch)

LoadBlockchain(store) ==
    [k \in 1..Len(store) |->
        [Block(store[k].index, store[k].timestamp, store[k].data, store[k].previousHash)
            EXCEPT !.nonce = store[k].nonce, !.hash = store[k].hash]]

\* new Blockchain(): the stored chain, or a fresh genesis block.
NewBlockchain(store, now) ==
    IF Len(LoadBlockchain(store)) = 0 THEN <<CreateGenesisBlock(now)>>
    ELSE LoadBlockchain(store)

\* isChainValid() ends with a TypeError: the loop reaches a block that is
\* not a Block, whose calculateHash is undefined, before it returns false.
IsChainValidThrows(ch) ==
    \E k \in 2..Len(ch) :
        /\ ~ch[k].typed
        /\ \A j \in 2..(k - 1) :
            /\ ch[j].typed
            /\ ch[j].hash = BlockHash(ch[j])
            /\ ch[j].previousHash = ch[j - 1].hash

IsChainValid(ch) ==
    \A k \in 2..Len(ch) :
        /\ ch[k].hash = BlockHash(ch[k])
        /\ ch[k].previousHash = ch[k - 1].hash

\* A faulty isValidChain: a block whose hash lacks the leading zeros of the
\* difficulty is refused.
IsValidChainSealed(c, now) ==
    /\ Len(c) >= 1
    /\ ToJSON(c[1]) = ToJSON(CreateGenesisBlock(now))
    /\ \A k \in 2..Len(c) :
        /\ c[k].previousHash = c[k - 1].hash
        /\ c[k].hash = BlockHash(c[k])
        /\ HasLeadingZeros(c[k].hash, Difficulty)

IsValidChain(c, now) ==
    /\ Len(c) >= 1
    /\ ToJSON(c[1]) = ToJSON(CreateGenesisBlock(now))
    /\ \A k \in 2..Len(c) :
        /\ c[k].previousHash = c[k - 1].hash
        /\ c[k].hash = BlockHash(c[k])

(***************************************************************************)
(* P2PNetwork: merging, vote updates, contiguity.                          *)
(***************************************************************************)
MergeChains(ch, incomingChain) ==
    [k \in 1..Len(ch) |->
        IF /\ k <= Len(incomingChain)
           /\ ch[k].hash # incomingChain[k].hash
           /\ incomingChain[k].timestamp < ch[k].timestamp
        THEN RawBlock(incomingChain[k])
        ELSE ch[k]]

\* The positions whose data carries the article id (the code takes the first).
ArticlePositions(ch, articleId) == {k \in 1..Len(ch) : ch[k].data.id = articleId}

FirstPosition(S) == CHOOSE k \in S : \A j \in S : k <= j

HandleVoteUpdate(ch, m) ==
    IF ArticlePositions(ch, m.articleId) = {} THEN ch
    ELSE LET k == FirstPosition(ArticlePositions(ch, m.articleId))
         IN  IF m.voteType = "up" THEN [ch EXCEPT ![k].data.votes = m.votes]
             ELSE IF m.voteType = "down" THEN [ch EXCEPT ![k].data.downvotes = m.downvotes]
             ELSE ch

\* A faulty isValidNewBlock: the index is compared, the previousHash is not.
IsValidNewBlockIndexOnly(ch, block) == block.index = GetLatestBlock(ch).index + 1

IsValidNewBlock(ch, block) ==
    /\ block.index = GetLatestBlock(ch).index + 1
    /\ block.previousHash = GetLatestBlock(ch).hash

(***************************************************************************)
(* Topology.  Node 0 stands for a peer that runs other software; the       *)
(* nodes 1..3 run this program.  A link is one WebSocket connection slot:  *)
(* its client calls connectToPeer(addr), its server gets 'connection' with *)
(* the client's remote address and port.                                   *)
(***************************************************************************)
Nodes == {1, 2, 3}

Ext == 0

\* Addresses and peer ids are texts, kept as sequences of their parts, so
\* that one text can be looked for inside another.
HostName(n) == <<"peer0", "node1", "node2", "node3">>[n + 1]

\* The port every node listens on (P2P_PORT).
P2PPort == "6001"

\* `ws://${address}:${port}`
WsAddress(address, port) == <<"ws://", address, ":", port>>

\* req.socket.remoteAddress + ':' + req.socket.remotePort
RemoteId(address, port) == <<address, ":", port>>

LinkTable ==
    [L12 |-> [client |-> 1, server |-> 2, addr |-> WsAddress(HostName(2), P2PPort),
              remote |-> RemoteId(HostName(1), "50012")],
     L13 |-> [client |-> 1, server |-> 3, addr |-> WsAddress(HostName(3), P2PPort),
              remote |-> RemoteId(HostName(1), "50013")],
     L23 |-> [client |-> 2, server |-> 3, addr |-> WsAddress(HostName(3), P2PPort),
              remote |-> RemoteId(HostName(2), "50023")],
     L21 |-> [client |-> 2, server |-> 1, addr |-> WsAddress(HostName(1), P2PPort),
              remote |-> RemoteId(HostName(2), "50021")],
     M13 |-> [client |-> 1, server |-> 3, addr |-> WsAddress(HostName(3), P2PPort),
              remote |-> RemoteId(HostName(1), "50113")],
     X1  |-> [client |-> 0, server |-> 1, addr |-> WsAddress(HostName(1), P2PPort),
              remote |-> RemoteId(HostName(0), "50001")],
     Y1  |-> [client |-> 0, server |-> 1, addr |-> WsAddress(HostName(1), P2PPort),
              remote |-> RemoteId(HostName(0), "50002")]]

Links == DOMAIN LinkTable

Sock == Links \X {"C", "S"}

NoSock == <<"none", "none">>

Owner(s) == IF s[2] = "C" THEN LinkTable[s[1]].client ELSE LinkTable[s[1]].server

\* The other end of the connection.
Remote(s) == <<s[1], IF s[2] = "C" THEN "S" ELSE "C">>

\* The key initConnection registers the socket under.
PeerId(s) == IF s[2] = "C" THEN LinkTable[s[1]].addr ELSE LinkTable[s[1]].remote

VARIABLES
    clock,       \* clock[n]: what Date.now() returns on node n
    chain,       \* chain[n]: blockchain.chain of node n
    disk,        \* disk[n]: the content of blockchain_data/blockchain.json
    sockState,   \* sockState[s]: "idle", "connecting", "open", "errored", "closed"
    peers,       \* peers[n]: the Map peerId -> socket of node n
    knownPeers,  \* knownPeers[n]: the Set of peer addresses of node n
    queue,       \* queue[s]: the messages in flight towards socket s
    articleSeq,  \* number of articles submitted through the REST API
    inProgress,  \* inProgress[n]: the chain mutations node n has begun and not ended
    timers,      \* timers[n]: the addresses node n has a setTimeout(connectToPeer) for
    proc         \* proc[n]: "up" after start(), "stopped" after stop(), "exited"

vars == <<clock, chain, disk, sockState, peers, knownPeers, queue, articleSeq, inProgress,
          timers, proc>>

(***************************************************************************)
(* Sending.                                                                *)
(***************************************************************************)
\* sendMessage(socket, message) for each message of msgs, on queues q.
SendMessage(q, s, msgs) ==
    IF s # NoSock /\ sockState[s] = "open" /\ Owner(Remote(s)) # Ext
    THEN [q EXCEPT ![Remote(s)] = @ \o msgs]
    ELSE q

\* A faulty broadcastMessage: the excluded socket is sent to as well.
BroadcastTargetsAll(n, excludeSocket) ==
    {s \in Sock : /\ \E id \in DOMAIN peers[n] : peers[n][id] = s
                  /\ sockState[s] = "open"}

\* The sockets broadcastMessage(message, excludeSocket) sends on.
BroadcastTargets(n, excludeSocket) ==
    {s \in Sock : /\ \E id \in DOMAIN peers[n] : peers[n][id] = s
                  /\ s # excludeSocket
                  /\ sockState[s] = "open"}

BroadcastMessage(q, n, msgs, excludeSocket) ==
    [t \in Sock |->
        IF Remote(t) \in BroadcastTargets(n, excludeSocket) /\ Owner(t) # Ext
        THEN q[t] \o msgs
        ELSE q[t]]

(***************************************************************************)
(* handleMessage.  Each handler yields the node's chain afterwards,        *)
(* whether saveBlockchain ran, the messages sent back on the socket, the   *)
(* messages broadcast to the other peers, and the branch taken.            *)
(***************************************************************************)
Result(ch, saved, reply, bcast, outcome) ==
    [chain |-> ch, saved |-> saved, reply |-> reply, bcast |-> bcast, outcome |-> outcome]

\* A faulty handleChainUpdate: a valid chain replaces the local one whatever
\* its length.
HandleChainUpdateAnyLength(ch, newChain, now) ==
    IF ~IsValidChain(newChain, now)
    THEN Result(ch, FALSE, << >>, << >>, "invalid")
    ELSE Result([k \in 1..Len(newChain) |-> ReconstructBlock(newChain[k], ch[1].typed)],
                TRUE, << >>,
                <<[type |-> "CHAIN_UPDATE", chainLength |-> Len(newChain)]>>, "replaced")

HandleChainUpdate(ch, newChain, now) ==
    IF ~IsValidChain(newChain, now)
    THEN Result(ch, FALSE, << >>, << >>, "invalid")
    ELSE IF Len(newChain) > Len(ch)
    THEN Result([k \in 1..Len(newChain) |-> ReconstructBlock(newChain[k], ch[1].typed)],
                TRUE, << >>,
                <<[type |-> "CHAIN_UPDATE", chainLength |-> Len(newChain)]>>, "replaced")
    ELSE IF Len(newChain) = Len(ch)
    THEN Result(MergeChains(ch, newChain), MergeChains(ch, newChain) # ch,
                << >>, << >>, "merged")
    ELSE Result(ch, FALSE, << >>, << >>, "shorter")

\* A faulty default branch: the message is passed on to the other peers.
UnknownMessageForwarded(ch, m) == Result(ch, FALSE, << >>, <<m>>, "unknown")

\* default: console.log(`Unknown message type: ...`)
UnknownMessage(ch, m) == Result(ch, FALSE, << >>, << >>, "unknown")

\* A faulty reply: only the latest block is sent.
ChainReplyTip(ch) == [type |-> "CHAIN", chain |-> <<ToJSON(GetLatestBlock(ch))>>]

\* { type: 'CHAIN', chain: this.blockchain.chain } as it goes on the wire.
ChainReply(ch) == [type |-> "CHAIN", chain |-> ChainJSON(ch)]

\* A faulty comparison: a reported length equal to the local one counts too.
ReachesLocal(ch, m) == m.chainLength >= Len(ch)

\* message.chainLength > this.blockchain.chain.length
ExceedsLocal(ch, m) == m.chainLength > Len(ch)

HandleMessage(ch, m, now) ==
    CASE m.type = "HELLO" ->
            IF ExceedsLocal(ch, m)
            THEN Result(ch, FALSE, <<[type |-> "REQUEST_CHAIN"]>>, << >>, "request")
            ELSE Result(ch, FALSE, << >>, << >>, "none")
      [] m.type = "REQUEST_CHAIN" ->
            Result(ch, FALSE, <<ChainReply(ch)>>, << >>, "chain")
      [] m.type = "CHAIN" -> HandleChainUpdate(ch, m.chain, now)
      [] m.type = "NEW_BLOCK" ->
            IF IsValidNewBlock(ch, m.block)
            THEN Result(Append(ch, RawBlock(m.block)), TRUE, << >>, <<m>>, "accepted")
            ELSE Result(ch, FALSE, << >>, << >>, "dropped")
      [] m.type = "NEW_ARTICLE" ->
            Result(AddArticle(ch, m.article, now), TRUE, << >>, <<m>>, "added")
      [] m.type = "ARTICLE_VOTE" ->
            Result(HandleVoteUpdate(ch, m), ArticlePositions(ch, m.articleId) # {},
                   << >>, <<m>>, "voted")
      [] m.type = "CHAIN_UPDATE" ->
            IF ExceedsLocal(ch, m)
            THEN Result(ch, FALSE, <<[type |-> "REQUEST_CHAIN"]>>, << >>, "request")
            ELSE Result(ch, FALSE, << >>, << >>, "none")
      [] OTHER -> UnknownMessage(ch, m)

\* A faulty replaceChain: it turns away only the strictly shorter candidates.
ReplaceChainUnlessShorter(ch, newChain, now) ==
    IF Len(newChain) < Len(ch)
    THEN Result(ch, FALSE, << >>, << >>, "notLonger")
    ELSE IF ~IsValidChain(newChain, now)
    THEN Result(ch, FALSE, << >>, << >>, "invalid")
    ELSE Result([k \in 1..Len(newChain) |-> RawBlock(newChain[k])], TRUE, << >>, << >>,
                "replaced")

\* Blockchain.replaceChain(newChain)
ReplaceChainResult(ch, newChain, now) ==
    IF Len(newChain) <= Len(ch)
    THEN Result(ch, FALSE, << >>, << >>, "notLonger")
    ELSE IF ~IsValidChain(newChain, now)
    THEN Result(ch, FALSE, << >>, << >>, "invalid")
    ELSE Result([k \in 1..Len(newChain) |-> RawBlock(newChain[k])], TRUE, << >>, << >>,
                "replaced")

(***************************************************************************)
(* What the environment supplies: clock readings, the chains, blocks and   *)
(* messages a peer running other software may send.                        *)
(***************************************************************************)
Times == 0..MaxTime

VoteTypes == {"up", "down"}

\* The id of the article the foreign peer writes about.
ExtArticleId == MaxArticles + 1

ExtArticle == [id |-> ExtArticleId, votes |-> 0, downvotes |-> 0]

\* The chains of S, each extended by one block the foreign peer mined.
Grow(S) == {ChainJSON(AddArticle(c, ExtArticle, t)) : c \in S, t \in Times}

RECURSIVE Grown(_, _)
Grown(S, k) == IF k = 0 THEN S ELSE S \cup Grown(Grow(S), k - 1)

Prefixes(c) == {SubSeq(c, 1, k) : k \in 1..Len(c)}

\* Chains a peer that started on its own built: its genesis block of some
\* time, then blocks it mined.
ForeignChains == Grown({<<ToJSON(CreateGenesisBlock(t))>> : t \in Times}, MaxChain - 1)

\* The node's chain as a peer may know it: cut short, as it is, or with
\* blocks the peer mined on top.
OwnBasedChains(ch) ==
    Prefixes(ChainJSON(ch)) \cup Grown({ChainJSON(ch)}, MaxChain - Len(ch))

\* c with one field of its block at position k changed.
TamperedAt(c, k) ==
    {[c EXCEPT ![k].hash = BadHash],
     [c EXCEPT ![k].previousHash = BadHash],
     [c EXCEPT ![k].data.votes = @ + 1]}

\* The node's chain, as it is or with one more block, with its last block
\* tampered with.
TamperedChains(ch) ==
    UNION {TamperedAt(c, Len(c)) :
            c \in {d \in {ChainJSON(ch)} \cup Grow({ChainJSON(ch)}) : Len(d) >= 2}}

\* The blocks a peer that does no proof of work puts on top of chain c: the
\* hash is the hash of the fields, and lacks the leading zeros.
UnsealedBlocks(c) ==
    LET made == {[Block(Len(c), t, [type |-> "ARTICLE", id |-> ExtArticleId, votes |-> 0,
                                     downvotes |-> 0, timestamp |-> t], c[Len(c)].hash)
                    EXCEPT !.nonce = k] : t \in Times, k \in 0..1}
    IN  {ToJSON([b EXCEPT !.hash = BlockHash(b)]) :
            b \in {x \in made : ~HasLeadingZeros(BlockHash(x), Difficulty)}}

GrowUnsealed(S) == UNION {{Append(c, b) : b \in UnsealedBlocks(c)} : c \in S}

\* The node's chain, cut short or as it is, with one or two such blocks on top.
UnsealedChains(ch) ==
    {c \in GrowUnsealed(Prefixes(ChainJSON(ch)))
            \cup GrowUnsealed(GrowUnsealed(Prefixes(ChainJSON(ch)))) : Len(c) <= MaxChain}

CandidateChains(ch) == ForeignChains \cup OwnBasedChains(ch) \cup TamperedChains(ch)

\* The blocks a foreign peer may announce: mined on the node's tip, the same
\* tampered with, and the node's own last block again.
CandidateBlocks(ch) ==
    {c[Len(c)] : c \in {d \in {ChainJSON(ch)} \cup Grow({ChainJSON(ch)})
                                \cup TamperedChains(ch) : Len(d) >= 2}}

ExtMessages(ch) ==
    {[type |-> t, chainLength |-> k] :
        t \in {"HELLO", "CHAIN_UPDATE"}, k \in {Len(ch), Len(ch) + 1}}
    \cup {[type |-> "REQUEST_CHAIN"]}
    \cup {[type |-> "CHAIN", chain |-> c] : c \in CandidateChains(ch)}
    \cup {[type |-> "NEW_BLOCK", block |-> b] : b \in CandidateBlocks(ch)}
    \cup {[type |-> "NEW_ARTICLE", article |-> ExtArticle]}
    \cup {[type |-> "ARTICLE_VOTE", articleId |-> a, votes |-> v, downvotes |-> v,
           voteType |-> vt] : a \in 1..ExtArticleId, v \in 0..MaxVotes, vt \in VoteTypes}

(***************************************************************************)
(* Actions.                                                                *)
(***************************************************************************)
QueuesBounded(q) == \A s \in Sock : Len(q[s]) <= MaxQueue

\* A faulty node: handlers never write the store.
ApplyWithoutSave(n, s, r, q) ==
    /\ Len(r.chain) <= MaxChain
    /\ chain' = [chain EXCEPT ![n] = r.chain]
    /\ disk' = disk
    /\ queue' = BroadcastMessage(SendMessage(q, s, r.reply), n, r.bcast, s)
    /\ QueuesBounded(queue')

\* The node's state after a handler that ended with result r on socket s.
Apply(n, s, r, q) ==
    /\ Len(r.chain) <= MaxChain
    /\ chain' = [chain EXCEPT ![n] = r.chain]
    /\ disk' = [disk EXCEPT ![n] = IF r.saved THEN SaveBlockchain(r.chain) ELSE @]
    /\ queue' = BroadcastMessage(SendMessage(q, s, r.reply), n, r.bcast, s)
    /\ QueuesBounded(queue')

\* Date.now() moves on.
Tick(n) ==
    /\ clock[n] < MaxTime
    /\ clock' = [clock EXCEPT ![n] = @ + 1]
    /\ UNCHANGED <<chain, disk, sockState, peers, knownPeers, queue,
                   articleSeq, inProgress, timers, proc>>

\* POST /api/articles: addArticle, then broadcastNewArticle.
PostArticle(n) ==
    /\ articleSeq < MaxArticles
    /\ LET article == [id |-> articleSeq + 1, votes |-> 0, downvotes |-> 0]
           r == Result(AddArticle(chain[n], article, clock[n]), TRUE, << >>,
                       <<[type |-> "NEW_ARTICLE", article |-> article]>>, "added")
       IN  /\ Apply(n, NoSock, r, queue)
    /\ articleSeq' = articleSeq + 1
    /\ UNCHANGED <<clock, sockState, peers, knownPeers, inProgress, timers, proc>>

\* The chain after POST /api/articles/:id/vote found the article at position k.
VoteOnArticle(ch, k, voteType) ==
    IF voteType = "up" THEN [ch EXCEPT ![k].data.votes = @ + 1]
    ELSE IF voteType = "down" THEN [ch EXCEPT ![k].data.downvotes = @ + 1]
    ELSE ch

\* POST /api/articles/:id/vote
Vote(n, id, voteType) ==
    /\ ArticlePositions(chain[n], id) # {}
    /\ LET k == FirstPosition(ArticlePositions(chain[n], id))
           ch == VoteOnArticle(chain[n], k, voteType)
           r == Result(ch, TRUE, << >>,
                       <<[type |-> "ARTICLE_VOTE", articleId |-> id,
                          votes |-> ch[k].data.votes,
                          downvotes |-> ch[k].data.downvotes,
                          voteType |-> voteType]>>, "voted")
       IN  /\ ch[k].data.votes + ch[k].data.downvotes <= MaxVotes
           /\ Apply(n, NoSock, r, queue)
    /\ UNCHANGED <<clock, sockState, peers, knownPeers, articleSeq, inProgress, timers, proc>>

\* A direct call of Blockchain.replaceChain(newChain).
ReplaceChain(n, newChain) ==
    /\ LET r == ReplaceChainResult(chain[n], newChain, clock[n])
       IN  /\ Apply(n, NoSock, r, queue)
    /\ UNCHANGED <<clock, sockState, peers, knownPeers, articleSeq, inProgress, timers, proc>>

\* peerId.includes(address): the text address occurs inside the text peerId.
Includes(peerId, address) ==
    \E i \in 0..(Len(peerId) - Len(address)) :
        SubSeq(peerId, i + 1, i + Len(address)) = address

IsPeerConnected(n, address) == \E id \in DOMAIN peers[n] : Includes(id, address)

\* peers.set(peerId, socket)
MapSet(map, id, s) == [x \in DOMAIN map \cup {id} |-> IF x = id THEN s ELSE map[x]]

\* connectToPeer(peerAddress) up to new WebSocket(peerAddress).
ConnectToPeer(l) ==
    /\ LinkTable[l].client # Ext
    /\ sockState[<<l, "C">>] = "idle"
    /\ ~(/\ LinkTable[l].addr \in knownPeers[LinkTable[l].client]
         /\ IsPeerConnected(LinkTable[l].client, LinkTable[l].addr))
    /\ sockState' = [sockState EXCEPT ![<<l, "C">>] = "connecting"]
    /\ UNCHANGED <<clock, chain, disk, peers, knownPeers, queue,
                   articleSeq, inProgress, timers, proc>>

\* The server's 'connection' event: initConnection(socket, remote address:port).
ServerConnection(l) ==
    LET s == <<l, "S">>
        n == LinkTable[l].server
    IN  /\ proc[n] = "up"
        /\ sockState[s] = "idle"
        /\ LinkTable[l].client = Ext \/ sockState[<<l, "C">>] = "connecting"
        /\ sockState' = [sockState EXCEPT ![s] = "open"]
        /\ peers' = [peers EXCEPT ![n] = MapSet(@, PeerId(s), s)]
        /\ queue' = IF LinkTable[l].client = Ext THEN queue
                    ELSE [queue EXCEPT ![Remote(s)] =
                            Append(@, [type |-> "HELLO", chainLength |-> Len(chain[n])])]
        /\ QueuesBounded(queue')
        /\ UNCHANGED <<clock, chain, disk, knownPeers, articleSeq, inProgress, timers, proc>>

\* A faulty 'open' handler: REQUEST_CHAIN is sent before initConnection runs.
ClientOpenRequestFirst(l) ==
    LET s == <<l, "C">>
        n == LinkTable[l].client
    IN  /\ sockState[s] = "connecting"
        /\ sockState[Remote(s)] = "open"
        /\ sockState' = [sockState EXCEPT ![s] = "open"]
        /\ knownPeers' = [knownPeers EXCEPT ![n] = @ \cup {LinkTable[l].addr}]
        /\ peers' = [peers EXCEPT ![n] = MapSet(@, PeerId(s), s)]
        /\ queue' = [queue EXCEPT ![Remote(s)] =
                        @ \o <<[type |-> "REQUEST_CHAIN"],
                               [type |-> "HELLO", chainLength |-> Len(chain[n])]>>]
        /\ QueuesBounded(queue')
        /\ UNCHANGED <<clock, chain, disk, articleSeq, inProgress, timers, proc>>

\* The client's 'open' event: knownPeers.add, initConnection, REQUEST_CHAIN.
ClientOpen(l) ==
    LET s == <<l, "C">>
        n == LinkTable[l].client
    IN  /\ sockState[s] = "connecting"
        /\ sockState[Remote(s)] = "open"
        /\ sockState' = [sockState EXCEPT ![s] = "open"]
        /\ knownPeers' = [knownPeers EXCEPT ![n] = @ \cup {LinkTable[l].addr}]
        /\ peers' = [peers EXCEPT ![n] = MapSet(@, PeerId(s), s)]
        /\ queue' = [queue EXCEPT ![Remote(s)] =
                        @ \o <<[type |-> "HELLO", chainLength |-> Len(chain[n])],
                               [type |-> "REQUEST_CHAIN"]>>]
        /\ QueuesBounded(queue')
        /\ UNCHANGED <<clock, chain, disk, articleSeq, inProgress, timers, proc>>

\* The socket's 'message' event for the message at the head of its queue.
Deliver(s) ==
    /\ sockState[s] = "open"
    /\ queue[s] # << >>
    /\ LET m == Head(queue[s])
           r == HandleMessage(chain[Owner(s)], m, clock[Owner(s)])
       IN  /\ Apply(Owner(s), s, r, [queue EXCEPT ![s] = Tail(@)])
    /\ UNCHANGED <<clock, sockState, peers, knownPeers, articleSeq, inProgress, timers, proc>>

\* A message of the foreign peer arrives on its connection to the node.
ExtMessage(l, m) ==
    LET s == <<l, "S">>
        r == HandleMessage(chain[Owner(s)], m, clock[Owner(s)])
    IN  /\ LinkTable[l].client = Ext
        /\ sockState[s] = "open"
        /\ Apply(Owner(s), s, r, queue)
        /\ UNCHANGED <<clock, sockState, peers, knownPeers, articleSeq, inProgress,
                       timers, proc>>

(***************************************************************************)
(* The mutations of the chain statement by statement: the assignment to    *)
(* the chain and the saveBlockchain call after it are separate steps, and  *)
(* fs.writeFileSync may throw.  inProgress[n] holds the mutations whose    *)
(* assignment ran and whose saveBlockchain call has not returned.          *)
(***************************************************************************)
Mutation(op, s, c, k, msgs) ==
    [op |-> op, socket |-> s, incoming |-> c, at |-> k, bcast |-> msgs]

\* A faulty runtime: a callback may start while another one is running.
CallStackAny(n) == TRUE

\* The event loop starts a callback when the previous one has returned;
\* addBlock, replaceChain, handleChainUpdate and mergeChains do not await.
CallStackEmpty(n) == inProgress[n] = << >>

\* The first position from `from` on at which the loop of mergeChains takes
\* the peer's block, 0 if there is none.
NextMergePos(ch, incomingChain, from) ==
    LET S == {k \in from..Len(incomingChain) :
                /\ ch[k].hash # incomingChain[k].hash
                /\ incomingChain[k].timestamp < ch[k].timestamp}
    IN  IF S = {} THEN 0 ELSE FirstPosition(S)

\* POST /api/articles up to this.chain.push(newBlock) in addBlock.
BeginAppend(n) ==
    /\ CallStackEmpty(n)
    /\ articleSeq < MaxArticles
    /\ Len(chain[n]) < MaxChain
    /\ LET article == [id |-> articleSeq + 1, votes |-> 0, downvotes |-> 0]
       IN  /\ chain' = [chain EXCEPT ![n] = AddArticle(@, article, clock[n])]
           /\ inProgress' = [inProgress EXCEPT ![n] =
                   Append(@, Mutation("append", NoSock, << >>, 0,
                                      <<[type |-> "NEW_ARTICLE", article |-> article]>>))]
    /\ articleSeq' = articleSeq + 1
    /\ UNCHANGED <<clock, disk, sockState, peers, knownPeers, queue, timers, proc>>

\* A CHAIN message of the foreign peer on link l with a longer valid chain:
\* handleChainUpdate up to this.blockchain.chain = reconstructedChain.
BeginReplace(l, newChain) ==
    LET s == <<l, "S">>
        n == Owner(s)
    IN  /\ CallStackEmpty(n)
        /\ LinkTable[l].client = Ext
        /\ sockState[s] = "open"
        /\ IsValidChain(newChain, clock[n])
        /\ Len(newChain) > Len(chain[n])
        /\ Len(newChain) <= MaxChain
        /\ chain' = [chain EXCEPT ![n] =
                [k \in 1..Len(newChain) |-> ReconstructBlock(newChain[k], chain[n][1].typed)]]
        /\ inProgress' = [inProgress EXCEPT ![n] =
                Append(@, Mutation("replace", s, newChain, 0,
                                   <<[type |-> "CHAIN_UPDATE", chainLength |-> Len(newChain)]>>))]
        /\ UNCHANGED <<clock, disk, sockState, peers, knownPeers, queue,
                       articleSeq, timers, proc>>

\* A CHAIN message of the foreign peer on link l with a valid chain of equal
\* length: mergeChains up to the first this.blockchain.chain[i] = theirBlock.
BeginMerge(l, incomingChain) ==
    LET s == <<l, "S">>
        n == Owner(s)
        k == NextMergePos(chain[n], incomingChain, 1)
    IN  /\ CallStackEmpty(n)
        /\ LinkTable[l].client = Ext
        /\ sockState[s] = "open"
        /\ IsValidChain(incomingChain, clock[n])
        /\ Len(incomingChain) = Len(chain[n])
        /\ k # 0
        /\ chain' = [chain EXCEPT ![n][k] = RawBlock(incomingChain[k])]
        /\ inProgress' = [inProgress EXCEPT ![n] =
                Append(@, Mutation("merge", s, incomingChain, k, << >>))]
        /\ UNCHANGED <<clock, disk, sockState, peers, knownPeers, queue,
                       articleSeq, timers, proc>>

\* saveBlockchain returns in the running mutation.  The loop of mergeChains
\* goes on to its next assignment; an append or a replacement ends with its
\* broadcast.
SaveBlockchainReturns(n) ==
    /\ inProgress[n] # << >>
    /\ LET top == Len(inProgress[n])
           e == inProgress[n][top]
           k == IF e.op = "merge" THEN NextMergePos(chain[n], e.incoming, e.at + 1) ELSE 0
       IN  /\ disk' = [disk EXCEPT ![n] = SaveBlockchain(chain[n])]
           /\ IF k # 0
              THEN /\ chain' = [chain EXCEPT ![n][k] = RawBlock(e.incoming[k])]
                   /\ inProgress' = [inProgress EXCEPT ![n][top].at = k]
                   /\ queue' = queue
              ELSE /\ chain' = chain
                   /\ inProgress' = [inProgress EXCEPT ![n] = SubSeq(@, 1, top - 1)]
                   /\ queue' = BroadcastMessage(queue, n, e.bcast, e.socket)
    /\ QueuesBounded(queue')
    /\ UNCHANGED <<clock, sockState, peers, knownPeers, articleSeq, timers, proc>>

\* fs.writeFileSync throws in the running mutation: the exception leaves
\* saveBlockchain and its callers and is caught by the handler's try/catch.
SaveBlockchainThrows(n) ==
    /\ inProgress[n] # << >>
    /\ inProgress' = [inProgress EXCEPT ![n] = SubSeq(@, 1, Len(@) - 1)]
    /\ UNCHANGED <<clock, chain, disk, sockState, peers, knownPeers,
                   queue, articleSeq, timers, proc>>

(***************************************************************************)
(* Frames.  The 'message' handler parses the frame and hands the message   *)
(* to handleMessage inside one try/catch; a frame may fail to parse, and a *)
(* parsed message may lack the field its type goes with.                   *)
(***************************************************************************)
Unparseable == [parsed |-> FALSE]

Frame(m) == [parsed |-> TRUE, message |-> m]

\* What { type: 'ARTICLE', ...undefined, timestamp } holds of an article:
\* nothing (no id, no votes).
NoArticle == [id |-> 0, votes |-> 0, downvotes |-> 0]

\* The socket's 'message' handler: JSON.parse, then handleMessage, any
\* exception caught and logged.
\*  - JSON.parse throws on a frame that is not JSON;
\*  - CHAIN without chain: isValidChain(undefined) throws at chain[0];
\*  - NEW_BLOCK without block: `block && ...` is false;
\*  - NEW_ARTICLE without article: addArticle(undefined) mines and saves a
\*    block, then the 'newArticle' listener of server.js throws on
\*    article.title, before broadcastMessage.
OnMessage(ch, frame, now) ==
    IF ~frame.parsed
    THEN Result(ch, FALSE, << >>, << >>, "caught")
    ELSE LET m == frame.message
         IN  CASE m.type = "CHAIN" /\ "chain" \notin DOMAIN m ->
                      Result(ch, FALSE, << >>, << >>, "caught")
               [] m.type = "NEW_BLOCK" /\ "block" \notin DOMAIN m ->
                      Result(ch, FALSE, << >>, << >>, "dropped")
               [] m.type = "NEW_ARTICLE" /\ "article" \notin DOMAIN m ->
                      Result(AddArticle(ch, NoArticle, now), TRUE, << >>, << >>, "caught")
               [] OTHER -> HandleMessage(ch, m, now)

\* The frames that are not JSON or lack the field of their type.
MalformedFrames ==
    {Unparseable} \cup {Frame([type |-> t]) : t \in {"CHAIN", "NEW_BLOCK", "NEW_ARTICLE"}}

\* Frames that parse and carry a type handleMessage has no case for, with
\* and without fields of the known types.
UnknownFrames ==
    {Frame([type |-> t]) : t \in {"PING", "hello"}}
    \cup {Frame([type |-> "PING", article |-> ExtArticle, chainLength |-> MaxChain + 1])}

\* A frame of the foreign peer arrives on its connection to the node.
ExtFrame(l, frame) ==
    LET s == <<l, "S">>
        r == OnMessage(chain[Owner(s)], frame, clock[Owner(s)])
    IN  /\ LinkTable[l].client = Ext
        /\ sockState[s] = "open"
        /\ Apply(Owner(s), s, r, queue)
        /\ UNCHANGED <<clock, sockState, peers, knownPeers, articleSeq, inProgress,
                       timers, proc>>

(***************************************************************************)
(* Disconnection.  A socket that reported an error is no longer open       *)
(* ("errored"); its 'close' event comes after it.                          *)
(***************************************************************************)
\* peers.delete(peerId)
MapDelete(map, id) == [x \in DOMAIN map \ {id} |-> map[x]]

\* The socket's 'error' event: the handler of initConnection logs; on a
\* socket this node dialled, the handler of connectToPeer also forgets the
\* address.
SocketError(s) ==
    /\ Owner(s) # Ext
    /\ sockState[s] = "open"
    /\ sockState' = [sockState EXCEPT ![s] = "errored"]
    /\ knownPeers' = IF s[2] = "C"
                     THEN [knownPeers EXCEPT ![Owner(s)] = @ \ {LinkTable[s[1]].addr}]
                     ELSE knownPeers
    /\ UNCHANGED <<clock, chain, disk, peers, queue, articleSeq, inProgress, timers, proc>>

\* The socket's 'close' event: peers.delete(peerId).  What was in flight
\* towards the socket is lost.
SocketClose(s) ==
    /\ Owner(s) # Ext
    /\ sockState[s] \in {"open", "errored"}
    /\ sockState' = [sockState EXCEPT ![s] = "closed"]
    /\ peers' = [peers EXCEPT ![Owner(s)] = MapDelete(@, PeerId(s))]
    /\ queue' = [queue EXCEPT ![s] = << >>]
    /\ UNCHANGED <<clock, chain, disk, knownPeers, articleSeq, inProgress, timers, proc>>

(***************************************************************************)
(* Discovery and shutdown.  A presence broadcast is a UDP datagram with    *)
(* the sender's port; the receiver sees the sender's address.              *)
(***************************************************************************)
Loopback == {"127.0.0.1", "localhost", "::1"}

\* isLocalAddress(address) on node n, whose only interface address is its
\* host's.
IsLocalAddress(n, address) == address = HostName(n) \/ address \in Loopback

\* A faulty discovery handler: it does not look at knownPeers.
DiscoverySchedulesUnlessConnected(n, address, port) ==
    /\ ~(port = P2PPort /\ IsLocalAddress(n, address))
    /\ ~IsPeerConnected(n, <<address>>)
    /\ address \notin {"127.0.0.1", "localhost"}

\* The discovery 'message' handler of node n, given a PEER_DISCOVERY datagram
\* with this port from this address, reaches knownPeers.add and setTimeout.
DiscoverySchedules(n, address, port) ==
    /\ ~(port = P2PPort /\ IsLocalAddress(n, address))
    /\ ~(WsAddress(address, port) \in knownPeers[n] \/ IsPeerConnected(n, <<address>>))
    /\ address \notin {"127.0.0.1", "localhost"}

\* Node n receives the presence broadcast of node m (m = n: its own).
DiscoveryMessage(n, m) ==
    /\ proc[n] = "up"
    /\ proc[m] = "up"
    /\ DiscoverySchedules(n, HostName(m), P2PPort)
    /\ knownPeers' = [knownPeers EXCEPT ![n] = @ \cup {WsAddress(HostName(m), P2PPort)}]
    /\ timers' = [timers EXCEPT ![n] = @ \cup {WsAddress(HostName(m), P2PPort)}]
    /\ UNCHANGED <<clock, chain, disk, sockState, peers, queue, articleSeq, inProgress, proc>>

\* The timer set by the discovery handler fires: connectToPeer(peerAddress).
\* A new WebSocket takes the link's slot once its previous sockets are gone.
ScheduledConnect(n, peerAddress) ==
    /\ proc[n] # "exited"
    /\ peerAddress \in timers[n]
    /\ timers' = [timers EXCEPT ![n] = @ \ {peerAddress}]
    /\ IF peerAddress \in knownPeers[n] /\ IsPeerConnected(n, peerAddress)
       THEN sockState' = sockState
       ELSE \E l \in Links :
               /\ LinkTable[l].client = n
               /\ LinkTable[l].addr = peerAddress
               /\ sockState[<<l, "C">>] \in {"idle", "closed"}
               /\ sockState[<<l, "S">>] \in {"idle", "closed"}
               /\ sockState' = [sockState EXCEPT ![<<l, "C">>] = "connecting",
                                                 ![<<l, "S">>] = "idle"]
    /\ UNCHANGED <<clock, chain, disk, peers, knownPeers, queue, articleSeq, inProgress, proc>>

\* The 'error' event of a socket that has not opened: knownPeers.delete.
DialError(l) ==
    LET s == <<l, "C">>
        n == LinkTable[l].client
    IN  /\ n # Ext
        /\ sockState[s] = "connecting"
        /\ sockState' = [sockState EXCEPT ![s] = "closed"]
        /\ knownPeers' = [knownPeers EXCEPT ![n] = @ \ {LinkTable[l].addr}]
        /\ UNCHANGED <<clock, chain, disk, peers, queue, articleSeq, inProgress, timers, proc>>

\* The sockets in the peer table of node n.
PeerSockets(n) == {peers[n][id] : id \in DOMAIN peers[n]}

\* P2PNetwork.stop(): clearInterval, discoverySocket.close(), socket.close()
\* for every socket of the peer table, peers.clear(), server.close().
Stop(n) ==
    /\ proc[n] = "up"
    /\ proc' = [proc EXCEPT ![n] = "stopped"]
    /\ sockState' = [s \in Sock |-> IF s \in PeerSockets(n) THEN "closed" ELSE sockState[s]]
    /\ queue' = [s \in Sock |-> IF s \in PeerSockets(n) THEN << >> ELSE queue[s]]
    /\ peers' = [peers EXCEPT ![n] = << >>]
    /\ UNCHANGED <<clock, chain, disk, knownPeers, articleSeq, inProgress, timers>>

\* The SIGINT handler of server.js: p2pNetwork.stop(), then process.exit(0),
\* which ends every socket and timer of the process.
Sigint(n) ==
    /\ proc[n] = "up"
    /\ proc' = [proc EXCEPT ![n] = "exited"]
    /\ sockState' = [s \in Sock |->
            IF Owner(s) = n /\ sockState[s] # "idle" THEN "closed" ELSE sockState[s]]
    /\ queue' = [s \in Sock |-> IF Owner(s) = n THEN << >> ELSE queue[s]]
    /\ peers' = [peers EXCEPT ![n] = << >>]
    /\ timers' = [timers EXCEPT ![n] = {}]
    /\ UNCHANGED <<clock, chain, disk, knownPeers, articleSeq, inProgress>>

(***************************************************************************)
(* Restart.                                                                *)
(***************************************************************************)
\* The process of node n ends and server.js is started again: a new
\* Blockchain loads the store (and writes a genesis block into an empty
\* one), a new P2PNetwork has no peers; the sockets of the old process are
\* gone.
Restart(n) ==
    /\ chain' = [chain EXCEPT ![n] = NewBlockchain(disk[n], clock[n])]
    /\ disk' = [disk EXCEPT ![n] =
                    IF Len(LoadBlockchain(@)) = 0
                    THEN SaveBlockchain(NewBlockchain(@, clock[n]))
                    ELSE @]
    /\ sockState' = [s \in Sock |-> IF n \in {Owner(s), Owner(Remote(s))} THEN "idle"
                                    ELSE sockState[s]]
    /\ queue' = [s \in Sock |-> IF n \in {Owner(s), Owner(Remote(s))} THEN << >>
                                ELSE queue[s]]
    /\ peers' = [peers EXCEPT ![n] = << >>]
    /\ knownPeers' = [knownPeers EXCEPT ![n] = {}]
    /\ inProgress' = [inProgress EXCEPT ![n] = << >>]
    /\ timers' = [timers EXCEPT ![n] = {}]
    /\ proc' = [proc EXCEPT ![n] = "up"]
    /\ UNCHANGED <<clock, articleSeq>>

(***************************************************************************)
(* Specifications.                                                         *)
(***************************************************************************)
\* The nodes of A just constructed, each at some reading of its clock, with
\* an empty store; nothing connected.
InitNodes(A) ==
    /\ clock \in {f \in [Nodes -> Times] : \A n \in Nodes \ A : f[n] = 0}
    /\ chain = [n \in Nodes |-> NewBlockchain(<< >>, clock[n])]
    /\ disk = [n \in Nodes |-> SaveBlockchain(chain[n])]
    /\ sockState = [s \in Sock |-> "idle"]
    /\ peers = [n \in Nodes |-> << >>]
    /\ knownPeers = [n \in Nodes |-> {}]
    /\ queue = [s \in Sock |-> << >>]
    /\ articleSeq = 0
    /\ inProgress = [n \in Nodes |-> << >>]
    /\ timers = [n \in Nodes |-> {}]
    /\ proc = [n \in Nodes |-> "up"]

\* One node with its REST API and two foreign peers connected to it.
Init == InitNodes({1})

Next ==
    \/ Tick(1)
    \/ PostArticle(1)
    \/ \E id \in 1..ExtArticleId, vt \in VoteTypes : Vote(1, id, vt)
    \/ \E c \in CandidateChains(chain[1]) : ReplaceChain(1, c)
    \/ \E l \in {"X1", "Y1"} : ServerConnection(l)
    \/ \E m \in ExtMessages(chain[1]) : ExtMessage("X1", m)

Spec == Init /\ [][Next]_vars

\* Two nodes and one connection, node 1 the client and node 2 the server.
InitSync == InitNodes({1, 2})

NextSync ==
    \/ \E n \in {1, 2} : Tick(n)
    \/ \E n \in {1, 2} : PostArticle(n)
    \/ ConnectToPeer("L12")
    \/ ServerConnection("L12")
    \/ ClientOpen("L12")
    \/ \E s \in {<<"L12", "C">>, <<"L12", "S">>} : Deliver(s)

SpecSync == InitSync /\ [][NextSync]_vars

\* Three nodes and a connection between every two of them.  Messages sent on
\* an open socket are delivered: each socket's 'message' events keep coming
\* while messages are in flight towards it.
MeshLinks == {"L12", "L13", "L23"}

MeshSockets == MeshLinks \X {"C", "S"}

\* Nodes 2 and 3 were started together.
InitMesh == InitNodes({1, 2, 3}) /\ clock[2] = clock[3]

\* No message is in flight.
Quiet == \A s \in Sock : queue[s] = << >>

MeshOpen == \A s \in MeshSockets : sockState[s] = "open"

\* A user of node 1 posts an article before the node has peers and votes once
\* the mesh is up; the operators connect the nodes one link at a time.
NextMesh ==
    \/ peers[1] = << >> /\ articleSeq = 0 /\ PostArticle(1)
    \/ Quiet /\ MeshOpen /\ \E id \in 1..MaxArticles, vt \in VoteTypes : Vote(1, id, vt)
    \/ Quiet /\ \E l \in MeshLinks : ConnectToPeer(l)
    \/ \E l \in MeshLinks : ServerConnection(l)
    \/ \E l \in MeshLinks : ClientOpen(l)
    \/ \E s \in MeshSockets : Deliver(s)

SpecMesh ==
    /\ InitMesh
    /\ [][NextMesh]_vars
    /\ \A s \in MeshSockets : WF_vars(Deliver(s))

\* Three nodes started at the same clock reading and fully connected; a
\* user of node 1 posts once the mesh is up, and the clocks move on.
InitRelay == InitMesh /\ clock[1] = clock[2]

NextRelay ==
    \/ \E n \in Nodes : Tick(n)
    \/ Quiet /\ MeshOpen /\ PostArticle(1)
    \/ Quiet /\ \E l \in MeshLinks : ConnectToPeer(l)
    \/ \E l \in MeshLinks : ServerConnection(l)
    \/ \E l \in MeshLinks : ClientOpen(l)
    \/ \E s \in MeshSockets : Deliver(s)

SpecRelay == InitRelay /\ [][NextRelay]_vars

\* One node, its REST API and two foreign peers, the chain's mutations taken
\* statement by statement, with a file system that may fail.
InitSteps == InitNodes({1})

NextSteps ==
    \/ Tick(1)
    \/ \E l \in {"X1", "Y1"} : CallStackEmpty(1) /\ ServerConnection(l)
    \/ BeginAppend(1)
    \/ \E l \in {"X1", "Y1"}, c \in CandidateChains(chain[1]) : BeginReplace(l, c)
    \/ \E l \in {"X1", "Y1"}, c \in CandidateChains(chain[1]) : BeginMerge(l, c)
    \/ SaveBlockchainReturns(1)
    \/ SaveBlockchainThrows(1)

SpecSteps == InitSteps /\ [][NextSteps]_vars

\* One node, its REST API and two foreign peers that send well-formed and
\* malformed frames.
InitFrames == InitNodes({1})

NextFrames ==
    \/ Tick(1)
    \/ PostArticle(1)
    \/ \E id \in 1..MaxArticles, vt \in VoteTypes : Vote(1, id, vt)
    \/ \E l \in {"X1", "Y1"} : ServerConnection(l)
    \/ \E l \in {"X1", "Y1"}, f \in MalformedFrames \cup UnknownFrames : ExtFrame(l, f)
    \/ \E l \in {"X1", "Y1"} :
            ExtFrame(l, Frame([type |-> "NEW_ARTICLE", article |-> ExtArticle]))

SpecFrames == InitFrames /\ [][NextFrames]_vars

\* Two nodes and one connection between them, and a foreign peer connected
\* to node 1; sockets fail and close.
DropSockets == {<<"L12", "C">>, <<"L12", "S">>, <<"X1", "S">>}

InitDrop == InitNodes({1, 2})

NextDrop ==
    \/ \E n \in {1, 2} : Tick(n)
    \/ \E n \in {1, 2} : PostArticle(n)
    \/ ConnectToPeer("L12")
    \/ \E l \in {"L12", "X1"} : ServerConnection(l)
    \/ ClientOpen("L12")
    \/ \E s \in DropSockets : Deliver(s)
    \/ \E s \in DropSockets : SocketError(s)
    \/ \E s \in DropSockets : SocketClose(s)

SpecDrop == InitDrop /\ [][NextDrop]_vars

\* Two nodes on one network that find each other by their presence
\* broadcasts; connections close, and a node may be stopped or interrupted.
\* Timers fire; whether the network answers a connection attempt is up to
\* the network.
DiscoveryNodes == {1, 2}

DiscoveryLinks == {"L12", "L21"}

DiscoverySockets == DiscoveryLinks \X {"C", "S"}

InitDiscovery == InitNodes({1}) /\ clock[1] = 0

NextDiscovery ==
    \/ \E n \in DiscoveryNodes, m \in DiscoveryNodes : DiscoveryMessage(n, m)
    \/ \E n \in DiscoveryNodes : \E a \in timers[n] : ScheduledConnect(n, a)
    \/ \E l \in DiscoveryLinks : ServerConnection(l)
    \/ \E l \in DiscoveryLinks : ClientOpen(l)
    \/ \E l \in DiscoveryLinks : DialError(l)
    \/ \E s \in DiscoverySockets : Deliver(s)
    \/ \E s \in DiscoverySockets : SocketClose(s)
    \/ proc[1] # "exited" /\ articleSeq = 0 /\ PostArticle(1)
    \/ \E n \in DiscoveryNodes : Stop(n)
    \/ \E n \in DiscoveryNodes : Sigint(n)

SpecDiscovery ==
    /\ InitDiscovery
    /\ [][NextDiscovery]_vars
    /\ \A n \in DiscoveryNodes :
            WF_vars(\E a \in timers[n] : ScheduledConnect(n, a))

\* One node with its REST API and a foreign peer; the node is restarted now
\* and then.  Every save succeeds.
InitStore == InitNodes({1})

NextStore ==
    \/ Tick(1)
    \/ PostArticle(1)
    \/ \E id \in 1..ExtArticleId, vt \in VoteTypes : Vote(1, id, vt)
    \/ ServerConnection("X1")
    \/ \E m \in ExtMessages(chain[1]) : ExtMessage("X1", m)
    \/ Restart(1)

SpecStore == InitStore /\ [][NextStore]_vars

\* One node and a foreign peer that sends blocks it did not mine to the
\* difficulty.
InitUnsealed == InitNodes({1})

NextUnsealed ==
    \/ Tick(1)
    \/ PostArticle(1)
    \/ ServerConnection("X1")
    \/ \E c \in UnsealedChains(chain[1]) : ExtMessage("X1", [type |-> "CHAIN", chain |-> c])
    \/ \E b \in UnsealedBlocks(ChainJSON(chain[1])) :
            ExtMessage("X1", [type |-> "NEW_BLOCK", block |-> b])

SpecUnsealed == InitUnsealed /\ [][NextUnsealed]_vars

\* Node 1 is asked twice to connect to node 3's address (PEERS, POST
\* /api/peers), so that two connections to the same address may be open.
PeerLinks == {"L13", "M13"}

PeerTableSockets == PeerLinks \X {"C", "S"}

InitPeers == InitNodes({})

NextPeers ==
    \/ Tick(1)
    \/ articleSeq = 0 /\ PostArticle(1)
    \/ \E l \in PeerLinks : ConnectToPeer(l)
    \/ \E l \in PeerLinks : ServerConnection(l)
    \/ \E l \in PeerLinks : ClientOpen(l)
    \/ \E s \in PeerTableSockets : Deliver(s)
    \/ \E s \in PeerTableSockets : SocketClose(s)

SpecPeers == InitPeers /\ [][NextPeers]_vars

\* Two nodes started at the same clock reading and then connected; a user
\* of node 1 posts one article, and users of both nodes up-vote it.
VoteSockets == {<<"L12", "C">>, <<"L12", "S">>}

InitVotes == InitNodes({})

NextVotes ==
    \/ \E n \in {1, 2} : Tick(n)
    \/ articleSeq = 0 /\ PostArticle(1)
    \/ \E n \in {1, 2} : Vote(n, 1, "up")
    \/ ConnectToPeer("L12")
    \/ ServerConnection("L12")
    \/ ClientOpen("L12")
    \/ \E s \in VoteSockets : Deliver(s)

SpecVotes == InitVotes /\ [][NextVotes]_vars

(***************************************************************************)
(* Properties.                                                             *)
(***************************************************************************)
\* The block at position k of ch links to its predecessor and carries the
\* hash of its own index, previousHash, timestamp, data and nonce.
BlockIntact(ch, k) ==
    /\ ch[k].previousHash = ch[k - 1].hash
    /\ ch[k].hash = BlockHash(ch[k])

\* The CHAIN message carrying chain c.
ChainMessage(c) == [type |-> "CHAIN", chain |-> c]

\* The handler left the node as it was: chain kept, nothing written to the
\* store, nothing broadcast.
LeftAlone(r, ch) == r.chain = ch /\ ~r.saved /\ r.bcast = << >>

\* C1: in every reachable state of a node, after local appends, vote updates
\* and inbound peer messages of every type, each block after the first of
\* the local chain has previousHash equal to the hash of the block before it
\* and a hash equal to the one recomputed from its own fields.
C1_ChainIntegrity == \A k \in 2..Len(chain[1]) : BlockIntact(chain[1], k)

\* C2: node 1 holds only its genesis block and is connected to node 2, which
\* holds a genesis block and two blocks it mined; when the CHAIN message that
\* carries node 2's chain is delivered to node 1, node 1's chain becomes
\* node 2's chain, block for block.
C2_SyncFromLongerPeer ==
    [][(/\ Len(chain[1]) = 1
        /\ Len(chain[2]) = 3
        /\ IsChainValid(chain[2])
        /\ queue[<<"L12", "C">>] # << >>
        /\ Head(queue[<<"L12", "C">>]) = ChainMessage(ChainJSON(chain[2]))
        /\ Deliver(<<"L12", "C">>))
       => ChainJSON(chain'[1]) = ChainJSON(chain[2])]_vars

\* Nodes a and b hold the same chain: same length, same hash at every index.
SameChain(a, b) ==
    /\ Len(chain[a]) = Len(chain[b])
    /\ \A k \in 1..Len(chain[a]) : chain[a][k].hash = chain[b][k].hash

\* The connection between nodes 1 and 2 is up on both sides.
Connected12 == sockState[<<"L12", "C">>] = "open" /\ sockState[<<"L12", "S">>] = "open"

\* C3: eventual consistency.  When two nodes are connected and every message
\* sent has been delivered, so that nothing more happens unless a node
\* appends again, the two nodes hold the same chain.
C3_EventualConsistency == (Connected12 /\ Quiet) => SameChain(1, 2)

\* A copy of an ARTICLE_VOTE message is in flight.
VoteInFlight ==
    \E s \in MeshSockets : \E i \in 1..Len(queue[s]) : queue[s][i].type = "ARTICLE_VOTE"

\* C4: flood bound.  In the full mesh of three nodes, once a node has
\* broadcast an ARTICLE_VOTE message, its re-broadcasting comes to an end:
\* eventually no copy of it is in flight.
C4_FloodTerminates == VoteInFlight ~> ~VoteInFlight

\* The positions at which chains a and b of equal length differ.
DifferAt(a, b) == {k \in 1..Len(a) : a[k].hash # b[k].hash}

\* C5: tie-break determinism.  When nodes 1 and 2 hold valid chains of equal
\* length that differ at one position, mergeChains run on node 1 against
\* node 2's chain and on node 2 against node 1's chain leave the same block
\* at that position, whatever the timestamps of the two blocks.
C5_TieBreakDeterminism ==
    \A k \in 1..Len(chain[1]) :
        (/\ Len(chain[1]) = Len(chain[2])
         /\ IsChainValid(chain[1])
         /\ IsChainValid(chain[2])
         /\ DifferAt(chain[1], chain[2]) = {k})
        => ToJSON(MergeChains(chain[1], ChainJSON(chain[2]))[k])
            = ToJSON(MergeChains(chain[2], ChainJSON(chain[1]))[k])

\* C6: append is monotonic.  A step in which the REST API appends an article
\* (addBlock) makes the chain one block longer, the new tip has the old
\* length as its index and the old tip's hash as its previousHash, the
\* earlier blocks are as they were, and loading the store afterwards gives
\* the blocks of the chain.
C6_AppendMonotonic ==
    [][articleSeq' # articleSeq =>
        /\ Len(chain'[1]) = Len(chain[1]) + 1
        /\ GetLatestBlock(chain'[1]).index = Len(chain[1])
        /\ GetLatestBlock(chain'[1]).previousHash = GetLatestBlock(chain[1]).hash
        /\ SubSeq(chain'[1], 1, Len(chain[1])) = chain[1]
        /\ ChainJSON(LoadBlockchain(disk'[1])) = ChainJSON(chain'[1])]_vars

\* The API has just appended an article to a chain that already held one,
\* and the store holds the chain.
C6_Appended ==
    /\ articleSeq = MaxArticles
    /\ Len(chain[1]) >= 3
    /\ GetLatestBlock(chain[1]).data.id = articleSeq
    /\ GetLatestBlock(chain[1]).index = Len(chain[1]) - 1
    /\ ChainJSON(LoadBlockchain(disk[1])) = ChainJSON(chain[1])

\* C7: replace never shortens the chain.  In every reachable state and for
\* every candidate no longer than the local chain, replaceChain turns it away
\* and leaves the chain in memory and the store as they are; a CHAIN message
\* with a strictly shorter chain leaves the chain as it is and has nothing
\* broadcast.
C7_ReplaceNeverShortens ==
    \A c \in CandidateChains(chain[1]) :
        /\ Len(c) <= Len(chain[1]) =>
            ReplaceChainResult(chain[1], c, clock[1])
                = Result(chain[1], FALSE, << >>, << >>, "notLonger")
        /\ Len(c) < Len(chain[1]) =>
            LeftAlone(HandleMessage(chain[1], ChainMessage(c), clock[1]), chain[1])

\* The node holds two blocks or more and is offered a different chain that
\* is no longer than its own and passes isValidChain.
C7_ShortValidCandidate ==
    /\ Len(chain[1]) >= 2
    /\ \E c \in CandidateChains(chain[1]) :
        /\ Len(c) < Len(chain[1])
        /\ IsValidChain(c, clock[1])
    /\ \E c \in CandidateChains(chain[1]) :
        /\ Len(c) = Len(chain[1])
        /\ c # ChainJSON(chain[1])
        /\ IsValidChain(c, clock[1])

\* Chain c does not start with the block genesis, or one of its later blocks
\* does not link to its predecessor or carries a hash that does not recompute.
Invalid(c, genesis) == c[1] # genesis \/ \E k \in 2..Len(c) : ~BlockIntact(c, k)

\* C8: replace rejects invalid candidates even if longer.  In every reachable
\* state, a candidate longer than the local chain that does not start with
\* the node's genesis block, or in which a block does not link or does not
\* recompute, is turned away by replaceChain and by the CHAIN handler: the
\* chain in memory and the store stay as they are and no CHAIN_UPDATE is
\* broadcast.
C8_RejectsInvalidLonger ==
    \A c \in CandidateChains(chain[1]) :
        (Len(c) > Len(chain[1]) /\ Invalid(c, ToJSON(chain[1][1]))) =>
            /\ ReplaceChainResult(chain[1], c, clock[1])
                = Result(chain[1], FALSE, << >>, << >>, "invalid")
            /\ LeftAlone(HandleMessage(chain[1], ChainMessage(c), clock[1]), chain[1])

\* C9: isValidChain(c) is true exactly when c starts with the genesis block
\* of the node and every later block links to its predecessor and carries a
\* hash that recomputes; so the node's genesis block alone is a valid chain
\* whenever the check is made.
C9_IsValidChainExact ==
    \A c \in CandidateChains(chain[1]) :
        IsValidChain(c, clock[1]) <=> ~Invalid(c, ToJSON(chain[1][1]))

\* What a node may append: its users' articles and those its peers announce.
AppendInputs == [id : 1..ExtArticleId, votes : {0}, downvotes : {0}]

RECURSIVE Appended(_, _)
\* The chains of S after at most k appends.
Appended(S, k) ==
    IF k = 0 THEN S
    ELSE S \cup Appended({AddArticle(c, a, t) : c \in S, a \in AppendInputs, t \in Times},
                         k - 1)

\* The chains a node produces by creating its genesis block and appending.
LocalChains == Appended({<<CreateGenesisBlock(t)>> : t \in Times}, MaxChain - 1)

\* C10: a chain the node produced by creating its genesis block and appending
\* passes isValidChain and isChainValid, and with one field (data, hash or
\* previousHash) of one of its blocks after the first changed it passes
\* neither.
C10_ValidAcceptedCorruptRejected ==
    chain[1] \in LocalChains =>
        /\ IsValidChain(ChainJSON(chain[1]), clock[1])
        /\ IsChainValid(chain[1])
        /\ \A k \in 2..Len(chain[1]) : \A c \in TamperedAt(ChainJSON(chain[1]), k) :
            /\ ~IsValidChain(c, clock[1])
            /\ ~IsChainValid(LoadBlockchain(c))

\* C11: the genesis block is fixed and identical on every node: two nodes
\* that started from an empty store hold equal blocks at index 0 (same
\* timestamp, same hash).
C11_GenesisIdentical == ToJSON(chain[1][1]) = ToJSON(chain[2][1])

\* The NEW_BLOCK message carrying block b.
BlockMessage(b) == [type |-> "NEW_BLOCK", block |-> b]

\* Block b is contiguous with the tip of ch.
Contiguous(ch, b) ==
    /\ b.index = GetLatestBlock(ch).index + 1
    /\ b.previousHash = GetLatestBlock(ch).hash

\* C12: in every reachable state and for every block a peer may announce, a
\* NEW_BLOCK message whose block is contiguous with the receiver's tip has
\* the block appended, the chain persisted and the message forwarded; any
\* other is dropped: the chain is as it was, nothing is written and nothing
\* is forwarded.
C12_NewBlockContiguity ==
    \A b \in CandidateBlocks(chain[1]) :
        LET r == HandleMessage(chain[1], BlockMessage(b), clock[1])
        IN  IF Contiguous(chain[1], b)
            THEN /\ ChainJSON(r.chain) = Append(ChainJSON(chain[1]), b)
                 /\ r.saved
                 /\ r.bcast = <<BlockMessage(b)>>
            ELSE /\ LeftAlone(r, chain[1])
                 /\ r.reply = << >>

\* The node holds a block it took from a NEW_BLOCK message and is offered
\* blocks that are contiguous with its tip and blocks that are not.
C12_BlockAnnounced ==
    /\ Len(chain[1]) >= 2
    /\ chain[1][1].typed
    /\ ~GetLatestBlock(chain[1]).typed
    /\ \E b \in CandidateBlocks(chain[1]) : Contiguous(chain[1], b)
    /\ \E b \in CandidateBlocks(chain[1]) :
        b.index = GetLatestBlock(chain[1]).index + 1 /\ ~Contiguous(chain[1], b)
    /\ \E b \in CandidateBlocks(chain[1]) : b.index # GetLatestBlock(chain[1]).index + 1

\* C16: a NEW_BLOCK or CHAIN message with a block whose stored hash is not
\* the hash recomputed from its fields is discarded: the local chain is as it
\* was.
C16_HashMismatchDiscarded ==
    /\ \A b \in CandidateBlocks(chain[1]) :
        b.hash # BlockHash(b) =>
            HandleMessage(chain[1], BlockMessage(b), clock[1]).chain = chain[1]
    /\ \A c \in CandidateChains(chain[1]) :
        (\E k \in 2..Len(c) : c[k].hash # BlockHash(c[k])) =>
            HandleMessage(chain[1], ChainMessage(c), clock[1]).chain = chain[1]

\* C18: a block in the chain is never changed in place: when a step changes
\* the block at some index, the step swapped the whole chain for a longer
\* one.
C18_BlocksImmutable ==
    [][\A k \in 1..Len(chain[1]) :
        (k <= Len(chain'[1]) /\ ToJSON(chain'[1][k]) # ToJSON(chain[1][k]))
            => Len(chain'[1]) > Len(chain[1])]_vars

\* The message at the head of the queue of socket s is of one of the types T.
HeadIs(s, T) == queue[s] # << >> /\ Head(queue[s]).type \in T

\* Messages were put in flight towards node n in this step.
SentTo(n) == \E t \in Sock : Owner(t) = n /\ Len(queue'[t]) > Len(queue[t])

\* C13: node 1 appended a block while connected to nodes 2 and 3.  When a
\* node that holds node 1's previous chain handles the announcement of the
\* block, its new tip is node 1's tip (same hash); and a node that forwards
\* the announcement never sends it to node 1.
C13_AppendPropagates ==
    [][\A s \in MeshSockets :
        (/\ Owner(s) # 1
         /\ HeadIs(s, {"NEW_BLOCK", "NEW_ARTICLE"})
         /\ Deliver(s))
        => /\ ~SentTo(1)
           /\ ChainJSON(chain[Owner(s)])
                    = SubSeq(ChainJSON(chain[1]), 1, Len(chain[1]) - 1)
                => GetLatestBlock(chain'[Owner(s)]).hash = GetLatestBlock(chain[1]).hash]_vars

\* Socket t is in the peer table of its node.
Registered(t) == \E id \in DOMAIN peers[Owner(t)] : peers[Owner(t)][id] = t

\* C14: when a node forwards a message it received on socket s, a copy goes
\* out on every open socket of its peer table except s, and on no other
\* socket: nothing goes back on the connection the message arrived on.
C14_ForwardToAllButSender ==
    [][\A s \in MeshSockets :
        (HeadIs(s, {"NEW_ARTICLE", "ARTICLE_VOTE"}) /\ Deliver(s))
        => \A t \in Sock :
            Owner(t) = Owner(s) =>
                queue'[Remote(t)] =
                    IF t # s /\ Registered(t) /\ sockState[t] = "open"
                    THEN Append(queue[Remote(t)], Head(queue[s]))
                    ELSE queue[Remote(t)]]_vars

\* Node 2 has handled an announcement that came from node 1 and a copy of it
\* is on its way to node 3, none on its way back to node 1.
C14_Forwarded ==
    /\ MeshOpen
    /\ Len(chain[2]) >= 2
    /\ HeadIs(<<"L23", "S">>, {"NEW_ARTICLE"})
    /\ queue[<<"L12", "C">>] = << >>

\* C15: when saving fails during an append or a replacement, the chain in
\* memory is afterwards the last chain that was saved.
C15_FailedSaveRollsBack ==
    [][SaveBlockchainThrows(1) => ChainJSON(chain'[1]) = disk'[1]]_vars

C17_MalformedDropped ==
    [][\A l \in {"X1", "Y1"}, f \in MalformedFrames :
            ExtFrame(l, f) =>
                /\ chain' = chain
                /\ disk' = disk
                /\ peers' = peers
                /\ queue' = queue
                /\ sockState' = sockState]_vars

\* C20: after a 'close' or an 'error' event of a registered peer's socket the
\* peer is no longer in the node's peer table, and the event starts no new
\* connection attempt.
C20_DisconnectRemovesPeer ==
    [][\A s \in DropSockets :
            (Registered(s) /\ (SocketClose(s) \/ SocketError(s))) =>
                /\ \A id \in DOMAIN peers'[Owner(s)] : peers'[Owner(s)][id] # s
                /\ \A t \in Sock : sockState'[t] = "connecting" => sockState[t] = "connecting"]_vars

\* The HELLO message reporting a chain of k blocks.
HelloMessage(k) == [type |-> "HELLO", chainLength |-> k]

\* C21: when an outbound connection opens, the node registers the peer under
\* the peer's address and sends HELLO with its chain length and then
\* REQUEST_CHAIN on that connection, in this order; while the connection has
\* not opened the peer is not in the table and nothing is in flight to it.
C21_OutboundHandshake ==
    [][\A l \in Links :
        LET s == <<l, "C">>
            n == LinkTable[l].client
        IN  n # Ext =>
            /\ (sockState[s] = "connecting" /\ sockState'[s] = "open") =>
                /\ LinkTable[l].addr \in DOMAIN peers'[n]
                /\ peers'[n][LinkTable[l].addr] = s
                /\ queue'[Remote(s)] =
                      queue[Remote(s)] \o <<HelloMessage(Len(chain[n])),
                                            [type |-> "REQUEST_CHAIN"]>>
            /\ sockState[s] \in {"idle", "connecting"} =>
                /\ \A id \in DOMAIN peers[n] : peers[n][id] # s
                /\ queue[Remote(s)] = << >>]_vars

\* Node 1, holding two blocks, has just opened its connection to node 2.
C21_Connected ==
    /\ sockState[<<"L12", "C">>] = "open"
    /\ WsAddress(HostName(2), P2PPort) \in DOMAIN peers[1]
    /\ queue[<<"L12", "S">>] = <<HelloMessage(2), [type |-> "REQUEST_CHAIN"]>>

\* C22: once a node has been shut down its peer table is empty, it opens no
\* new peer connection (none is attempted, none opens, also not from a timer
\* discovery had set before) and it sends no message.
C22_QuietAfterStop ==
    [][\A n \in DiscoveryNodes :
        proc[n] # "up" =>
            /\ peers'[n] = << >>
            /\ \A s \in Sock :
                Owner(s) = n =>
                    /\ sockState'[s] \in {"connecting", "open"} => sockState'[s] = sockState[s]
                    /\ Len(queue'[Remote(s)]) <= Len(queue[Remote(s)])]_vars

\* C27: when the connection a node had opened to a peer has closed and the
\* node has no connection with that peer, the peer's next presence broadcast
\* makes the node schedule a connection to it (or one is scheduled already).
C27_RediscoveryAfterClose ==
    \A l \in DiscoveryLinks :
        LET n == LinkTable[l].client
            m == LinkTable[l].server
        IN  (/\ sockState[<<l, "C">>] = "closed"
             /\ peers[n] = << >>
             /\ proc[n] = "up"
             /\ proc[m] = "up")
            => \/ DiscoverySchedules(n, HostName(m), P2PPort)
               \/ LinkTable[l].addr \in timers[n]

\* The node the address a names.
Addressed(a) == CHOOSE m \in Nodes \cup {Ext} : HostName(m) = a[2]

\* C28: a presence broadcast makes the node schedule a connection only to an
\* address that is not its own, is not in knownPeers and belongs to no peer
\* in its peer table.
C28_ScheduleOnlyNewPeers ==
    [][\A n \in DiscoveryNodes : \A a \in timers'[n] \ timers[n] :
            /\ Addressed(a) # n
            /\ a \notin knownPeers[n]
            /\ \A s \in PeerSockets(n) : Owner(Remote(s)) # Addressed(a)]_vars

\* Node 1 found node 2 and connected to it; node 2, which has node 1 in its
\* peer table and not in knownPeers, does not schedule a connection when
\* node 1's presence broadcast arrives; neither node schedules for its own.
C28_ConnectedPeerSkipped ==
    /\ sockState[<<"L12", "C">>] = "open"
    /\ sockState[<<"L12", "S">>] = "open"
    /\ LinkTable["L12"].addr \in knownPeers[1]
    /\ LinkTable["L21"].addr \notin knownPeers[2]
    /\ proc[1] = "up" /\ proc[2] = "up"
    /\ ~DiscoverySchedules(2, HostName(1), P2PPort)
    /\ ~DiscoverySchedules(1, HostName(2), P2PPort)
    /\ ~DiscoverySchedules(1, HostName(1), P2PPort)

\* C29: a connection attempt does not stay pending for ever: while the nodes
\* keep running and the peer never takes the connection, so that the attempt
\* neither opens nor fails, the attempt still comes to an end.
C29_AttemptAbandoned ==
    \A l \in DiscoveryLinks :
        [](/\ \A n \in DiscoveryNodes : proc[n] = "up"
           /\ sockState[<<l, "S">>] = "idle")
        => ((sockState[<<l, "C">>] = "connecting") ~> (sockState[<<l, "C">>] # "connecting"))

\* C23: a CHAIN message with a valid chain (it starts with the node's genesis
\* block, every later block links and recomputes) strictly longer than the
\* local chain makes that chain the local chain, has it saved and has
\* CHAIN_UPDATE with the new length broadcast to the peers other than the
\* sender; a CHAIN message that does not replace the chain has no
\* CHAIN_UPDATE broadcast.
C23_LongerValidChainAdopted ==
    \A c \in CandidateChains(chain[1]) :
        LET r == HandleMessage(chain[1], ChainMessage(c), clock[1])
        IN  /\ (Len(c) > Len(chain[1]) /\ ~Invalid(c, ToJSON(chain[1][1]))) =>
                /\ ChainJSON(r.chain) = c
                /\ r.saved
                /\ r.reply = << >>
                /\ r.bcast = <<[type |-> "CHAIN_UPDATE", chainLength |-> Len(c)]>>
            /\ r.outcome # "replaced" => r.bcast = << >>

\* C24: a node that receives HELLO or CHAIN_UPDATE sends REQUEST_CHAIN to the
\* sender exactly when the reported length is greater than the length of its
\* chain, and nothing otherwise; its chain, its store and its peer table stay
\* as they are and nothing goes to the other peers.
C24_RequestWhenBehind ==
    [][\A s \in MeshSockets :
        (HeadIs(s, {"HELLO", "CHAIN_UPDATE"}) /\ Deliver(s)) =>
            /\ chain' = chain
            /\ disk' = disk
            /\ peers' = peers
            /\ queue' = [queue EXCEPT
                  ![s] = Tail(@),
                  ![Remote(s)] =
                      IF Head(queue[s]).chainLength > Len(chain[Owner(s)])
                      THEN Append(@, [type |-> "REQUEST_CHAIN"])
                      ELSE @]]_vars

\* A CHAIN_UPDATE reporting more blocks than the receiver holds is about to
\* be delivered, and so is a HELLO reporting no more than its receiver holds.
C24_ReportsInFlight ==
    /\ \E s \in MeshSockets :
        /\ HeadIs(s, {"CHAIN_UPDATE"})
        /\ sockState[s] = "open"
        /\ Head(queue[s]).chainLength > Len(chain[Owner(s)])
    /\ \E s \in MeshSockets :
        /\ HeadIs(s, {"HELLO"})
        /\ sockState[s] = "open"
        /\ Head(queue[s]).chainLength <= Len(chain[Owner(s)])

\* C25: a node that receives REQUEST_CHAIN sends one CHAIN message with its
\* whole chain, block for block, to the requesting peer and to no other;
\* its chain, its store and its peer table stay as they are.
C25_RepliesWithFullChain ==
    [][\A s \in MeshSockets :
        (HeadIs(s, {"REQUEST_CHAIN"}) /\ Deliver(s)) =>
            /\ chain' = chain
            /\ disk' = disk
            /\ peers' = peers
            /\ queue' = [queue EXCEPT
                  ![s] = Tail(@),
                  ![Remote(s)] = Append(@,
                      [type |-> "CHAIN",
                       chain |-> [k \in 1..Len(chain[Owner(s)]) |->
                                    ToJSON(chain[Owner(s)][k])]])]]_vars

\* Node 1 holds two blocks, is connected to both other nodes and is about to
\* receive a REQUEST_CHAIN.
C25_Requested ==
    /\ Len(chain[1]) = 2
    /\ \E s \in MeshSockets :
        /\ Owner(s) = 1
        /\ sockState[s] = "open"
        /\ HeadIs(s, {"REQUEST_CHAIN"})
        /\ \E t \in MeshSockets : t # s /\ Owner(t) = 1 /\ Registered(t) /\ sockState[t] = "open"

\* C26: a CHAIN message with a valid chain as long as the local chain leaves
\* the length as it is, leaves every position with equal hashes as it is,
\* and leaves at every position where the hashes differ the one of the two
\* blocks that has the earlier timestamp.
C26_EarlierBlockWins ==
    \A c \in CandidateChains(chain[1]) :
        (Len(c) = Len(chain[1]) /\ ~Invalid(c, ToJSON(chain[1][1]))) =>
            LET r == HandleMessage(chain[1], ChainMessage(c), clock[1])
            IN  /\ Len(r.chain) = Len(chain[1])
                /\ \A k \in 1..Len(c) :
                    IF chain[1][k].hash = c[k].hash
                    THEN r.chain[k] = chain[1][k]
                    ELSE /\ ToJSON(r.chain[k]) \in {ToJSON(chain[1][k]), c[k]}
                         /\ r.chain[k].timestamp <= chain[1][k].timestamp
                         /\ r.chain[k].timestamp <= c[k].timestamp

\* C30: the store holds the chain in memory after every completed mutation
\* (append, accepted NEW_BLOCK, replacement, reconciliation, vote update)
\* and at startup: a started node holds the stored chain, block for block,
\* or, with no stored chain, one genesis block that it has stored.
C30_StoreMirrorsChain ==
    /\ [](disk[1] = ChainJSON(chain[1]))
    /\ [][Restart(1) =>
            /\ ChainJSON(chain'[1]) = disk[1]
            /\ disk'[1] = disk[1]]_vars

\* The node has been restarted after it accepted an announced block: the
\* block, which only a peer can have made, is a Block instance again.
C30_Reloaded ==
    /\ Len(chain[1]) >= 2
    /\ \A k \in 1..Len(chain[1]) : chain[1][k].typed
    /\ \E k \in 2..Len(chain[1]) : chain[1][k].hash = BadHash
    /\ sockState[<<"X1", "S">>] = "idle"

\* C31: a message of a type handleMessage has no case for changes nothing:
\* the chain stays, nothing is saved, nothing is sent back or passed on.
C31_UnknownTypeIgnored ==
    \A f \in UnknownFrames :
        LET r == OnMessage(chain[1], f, clock[1])
        IN  /\ r.chain = chain[1]
            /\ ~r.saved
            /\ r.reply = << >>
            /\ r.bcast = << >>

\* Both foreign peers are connected to node 1, which holds two blocks: a
\* message passed on or answered would reach a peer.
C31_TwoPeersListening ==
    /\ sockState[<<"X1", "S">>] = "open"
    /\ sockState[<<"Y1", "S">>] = "open"
    /\ Registered(<<"X1", "S">>) /\ Registered(<<"Y1", "S">>)
    /\ Len(chain[1]) = 2
    /\ disk[1] = ChainJSON(chain[1])

\* The block addBlock makes of article a on top of chain ch at difficulty d.
Sealed(ch, a, now, d) ==
    MineBlock(Block(Len(ch), now,
                    [type |-> "ARTICLE", id |-> a.id, votes |-> a.votes,
                     downvotes |-> a.downvotes, timestamp |-> now],
                    GetLatestBlock(ch).hash), d)

\* C32: sealing at difficulty d returns a block whose hash is the hash of its
\* fields with the final nonce and has d leading zeros, and no smaller nonce
\* from 0 on gives such a hash; the block a node appends is the block sealed
\* at the node's difficulty.
C32_SealFindsSmallestNonce ==
    \A a \in AppendInputs :
        /\ \A d \in 0..LeadLen :
            LET b == Sealed(chain[1], a, clock[1], d)
            IN  /\ b.hash = BlockHash(b)
                /\ HasLeadingZeros(b.hash, d)
                /\ b.nonce >= 0
                /\ \A k \in 0..(b.nonce - 1) :
                    ~HasLeadingZeros(
                        CalculateHash(b.index, b.previousHash, b.timestamp, b.data, k), d)
        /\ GetLatestBlock(AddArticle(chain[1], a, clock[1]))
                = Sealed(chain[1], a, clock[1], Difficulty)

\* The node has appended a block whose sealing took more than one try, on
\* top of a block sealed at the first try.
C32_MinedWithRetries ==
    /\ Len(chain[1]) = 3
    /\ chain[1][2].typed /\ chain[1][2].nonce = 0
    /\ chain[1][3].typed /\ chain[1][3].nonce >= 1
    /\ HasLeadingZeros(chain[1][3].hash, Difficulty)

\* C33: a block or chain of a peer is not refused for lacking the leading
\* zeros of the difficulty: a NEW_BLOCK that is contiguous with the local tip
\* is appended, and a CHAIN whose blocks link and carry the hash of their
\* fields is refused only when its first block is not the genesis block the
\* node computes, and replaces the local chain when it passes and is longer.
C33_DifficultyNotChecked ==
    /\ \A b \in UnsealedBlocks(ChainJSON(chain[1])) :
        LET r == HandleMessage(chain[1], [type |-> "NEW_BLOCK", block |-> b], clock[1])
        IN  /\ ~HasLeadingZeros(b.hash, Difficulty)
            /\ IsValidNewBlock(chain[1], b)
            /\ r.outcome = "accepted"
            /\ r.chain = Append(chain[1], RawBlock(b))
    /\ \A c \in UnsealedChains(chain[1]) :
        LET r == HandleMessage(chain[1], [type |-> "CHAIN", chain |-> c], clock[1])
        IN  /\ (\A k \in 2..Len(c) : BlockIntact(c, k))
                => (IsValidChain(c, clock[1])
                        <=> (c[1] = ToJSON(CreateGenesisBlock(clock[1]))))
            /\ IsValidChain(c, clock[1]) /\ Len(c) > Len(chain[1])
                => r.outcome = "replaced" /\ ChainJSON(r.chain) = c

\* The node holds two blocks taken from the peer whose hashes are the hashes
\* of their fields and lack the leading zeros.
C33_UnsealedBlocksHeld ==
    /\ Len(chain[1]) = 3
    /\ \A k \in 2..3 :
        /\ chain[1][k].data.id = ExtArticleId
        /\ chain[1][k].hash = BlockHash(chain[1][k])
        /\ ~HasLeadingZeros(chain[1][k].hash, Difficulty)
    /\ disk[1] = ChainJSON(chain[1])

\* C34: every connection initConnection registered and that has not closed
\* is in the peer table of its node, and the close of a socket removes no
\* other socket from the table.
C34_PeerTableConsistent ==
    /\ [](\A s \in PeerTableSockets : sockState[s] = "open" => Registered(s))
    /\ [][\A s \in PeerTableSockets :
            SocketClose(s) =>
                \A t \in PeerTableSockets \ {s} :
                    Registered(t) /\ sockState[t] = "open" => Registered(t)']_vars

\* C35: the chain of a node is never empty, and no step makes it shorter.
C35_LengthNeverDecreases ==
    /\ [](\A n \in Nodes : Len(chain[n]) >= 1)
    /\ [][\A n \in Nodes : Len(chain'[n]) >= Len(chain[n])]_vars

\* The node's chain has grown to three blocks, one of them taken from a
\* peer, and a shorter chain that passes isValidChain can be offered to it.
C35_ShorterChainOnOffer ==
    /\ Len(chain[1]) = 3
    /\ \E k \in 2..3 : ~chain[1][k].typed
    /\ \E c \in Prefixes(ChainJSON(chain[1])) :
        Len(c) < 3 /\ IsValidChain(c, clock[1])
    /\ sockState[<<"X1", "S">>] = "open"

\* Every block after the first of ch has the hash of the block before it as
\* its previousHash.
Linked(ch) == \A k \in 2..Len(ch) : ch[k].previousHash = ch[k - 1].hash

\* C36: when the local chain is correctly linked and a CHAIN message carries
\* a valid chain of the same length, the chain the reconciliation leaves is
\* correctly linked.
C36_MergeKeepsLinkage ==
    \A c \in CandidateChains(chain[1]) :
        (/\ Linked(chain[1])
         /\ Len(c) = Len(chain[1])
         /\ ~Invalid(c, ToJSON(chain[1][1]))
         /\ IsValidChain(c, clock[1]))
        => Linked(HandleMessage(chain[1], ChainMessage(c), clock[1]).chain)

\* C37: no chain of a node holds two blocks whose data carries the same
\* article id.
C37_ArticleRecordedOnce ==
    \A n \in Nodes : \A id \in 1..MaxArticles :
        Cardinality(ArticlePositions(chain[n], id)) <= 1

\* The open sockets in the peer table of node n whose other end is node m.
LiveConnections(n, m) ==
    {s \in PeerSockets(n) : sockState[s] = "open" /\ Owner(Remote(s)) = m}

\* C38: the peer table of a node never holds two open connections to the
\* same remote node.
C38_OneConnectionPerPair ==
    \A n \in DiscoveryNodes, m \in DiscoveryNodes :
        Cardinality(LiveConnections(n, m)) <= 1

\* C39: every block of a node's chain is a Block, and isChainValid() run on
\* the chain returns true or false and does not end with an error.
C39_BlocksTyped ==
    /\ \A k \in 1..Len(chain[1]) : chain[1][k].typed
    /\ ~IsChainValidThrows(chain[1])

\* The up-vote count node n reports for the article id.
UpVotes(ch, id) == ch[FirstPosition(ArticlePositions(ch, id))].data.votes

\* Socket s has one message in flight towards it, the ARTICLE_VOTE of an
\* up-vote for article 1.
UpVoteArriving(s) ==
    /\ Len(queue[s]) = 1
    /\ queue[s][1].type = "ARTICLE_VOTE"
    /\ queue[s][1].articleId = 1
    /\ queue[s][1].voteType = "up"

\* C40: nodes 1 and 2 hold article 1 and each has cast one up-vote for it,
\* the two ARTICLE_VOTE messages crossing on their connection; once each
\* node has handled the other's message it reports two up-votes, the number
\* of up-votes cast.
C40_VotesNotLost ==
    (/\ \A s \in VoteSockets :
            /\ sockState[s] = "open"
            /\ UpVoteArriving(s)
            /\ ArticlePositions(chain[Owner(s)], 1) # {}
            /\ UpVotes(chain[Owner(s)], 1) = 1)
    => \A s \in VoteSockets :
        UpVotes(HandleMessage(chain[Owner(s)], queue[s][1], clock[Owner(s)]).chain, 1) = 2
====
